---- MODULE Spec2Model ----
(***************************************************************************)
(* A model of the expression-evaluation core of the metrics query engine:  *)
(*   - FetchCounter (NewFetchCounter, Current, Consume),                   *)
(*   - EvaluateMany, the parallel evaluation of sibling expressions,       *)
(*   - the Compute closure generated by MakeFunction.                      *)
(* Each of the three parts has its own specification over the shared       *)
(* variables; the variables of the other parts stay at their idle values.  *)
(***************************************************************************)
EXTENDS Integers, Sequences, FiniteSets, TLC

(***************************************************************************)
(* Bounds of the model.                                                    *)
(***************************************************************************)
MaxLimit == 2
MaxAmount == 2
MaxRefund == 1
MaxCalls == 2
NumCallers == 2
MaxExprs == 3
MaxValue == 2
MaxParams == 3
MaxArgs == 2
\* Tasks that call AddNote concurrently.
NumNoters == 2
\* EvaluationContext values alive at once, and notes per EvaluationNotes.
MaxContexts == 3
MaxNotes == 1
\* Calls of Consume that one task makes one after the other.
MaxSequentialCalls == 3

(***************************************************************************)
(* int32: the type of FetchCounter.count.                                  *)
(***************************************************************************)
MaxInt32 == 2147483647
MinInt32 == (0 - MaxInt32) - 1

\* The values of Go's int that the model draws lie within the int32 range,
\* where the conversion int32(n) keeps the value.
ToInt32(n) == n

\* -x in int32: the negation of the least value wraps to itself.
NegInt32(x) == IF x = MinInt32 THEN MinInt32 ELSE 0 - x

\* a + b in int32, wrapping around (two's complement), computed without
\* leaving the range of the checker's integers.
AddInt32(a, b) ==
  IF a > 0 /\ b > 0 /\ a > MaxInt32 - b
    THEN (a + MinInt32) + (b + MinInt32)
    ELSE IF a < 0 /\ b < 0 /\ a < MinInt32 - b
      THEN (a - MinInt32) + (b - MinInt32)
      ELSE a + b

\* a + b and a - b in Go's int, which is wider than int32.  A result beyond
\* the int32 range, which is all the integers the model has, is held at the
\* end of that range.
IntAdd(a, b) ==
  IF b > 0 /\ a > MaxInt32 - b THEN MaxInt32
  ELSE IF b < 0 /\ a < MinInt32 - b THEN MinInt32
  ELSE a + b
IntSub(a, b) ==
  IF b < 0 /\ a > MaxInt32 + b THEN MaxInt32
  ELSE IF b > 0 /\ a < MinInt32 + b THEN MinInt32
  ELSE a - b

\* The nil error.
Nil == [kind |-> "nil"]

VARIABLES
  limit,      \* FetchCounter.limit
  count,      \* the int32 that FetchCounter.count points to, shared by all copies
  callers,    \* per caller: its place in Consume, its argument, its local `remaining`
  calls,      \* history: one entry per atomic step of Consume, in the order of the steps
  total,      \* history: the sum of the amounts of all atomic steps so far
  observed,   \* history: the reads of Current()
  exprs,      \* EvaluateMany: the expressions, each with the outcome of its Evaluate
  mpc,        \* EvaluateMany: where the caller is
  launched,   \* EvaluateMany: how many goroutines the launch loop has started
  tasks,      \* EvaluateMany: per goroutine, its place and the result it holds
  results,    \* EvaluateMany: the buffered channel `results`
  array,      \* EvaluateMany: the slice `array`
  drainI,     \* EvaluateMany: the drain loop's counter i
  drained,    \* history: the results received from the channel, in order
  ret,        \* EvaluateMany: what it returned
  funcType,   \* MakeFunction: the callable's parameter and return types
  arguments,  \* Compute: the argument expressions
  cpc,        \* Compute: where the caller is
  argumentFuncs, \* Compute: the slice of binding functions
  btasks,     \* Compute: per parameter, whether its goroutine has run, and its outcome
  waiter,     \* Compute: the WaitGroup's counter
  argValues,  \* Compute: the slice of resolved arguments
  errors,     \* Compute: the buffered channel `errors`
  sent,       \* history: the parameters whose errors were sent, in the order of sending
  evalCount,  \* history: per argument expression, the calls of its Evaluate (0: a nil expression)
  invoked,    \* history: the argument lists the callable was invoked with
  cret,       \* Compute: what it returned
  output,     \* what funcValue.Call returned: the results of the callable
  panicked,   \* a goroutine panicked: the process is gone
  callable,   \* MakeFunction: its argument `function`
  made,       \* MakeFunction: the MetricFunction it returned, or its panic
  notesNil,   \* whether the *EvaluationNotes the tasks hold is nil
  mutex,      \* EvaluationNotes.mutex: its holder, 0 when free
  notes,      \* EvaluationNotes.notes
  noters,     \* per task calling AddNote: its place and its note
  contexts,   \* the EvaluationContext values of one query
  int32s,     \* the int32 cells FetchCounter.count may point to
  noteLogs    \* the EvaluationNotes objects EvaluationContext.EvaluationNotes may point to

counterVars == <<limit, count, callers, calls, total, observed>>
manyVars == <<exprs, mpc, launched, tasks, results, array, drainI, drained, ret>>

computeVars == <<funcType, arguments, cpc, argumentFuncs, btasks, waiter, argValues,
                 errors, sent, evalCount, invoked, output, cret, panicked>>

makeVars == <<callable, made>>
notesVars == <<notesNil, mutex, notes, noters>>
contextVars == <<contexts, int32s, noteLogs>>
restVars == <<makeVars, notesVars, contextVars>>

vars == <<limit, count, callers, calls, total, observed,
          exprs, mpc, launched, tasks, results, array, drainI, drained, ret,
          funcType, arguments, cpc, argumentFuncs, btasks, waiter, argValues,
          errors, sent, evalCount, invoked, output, cret, panicked,
          callable, made, notesNil, mutex, notes, noters, contexts, int32s, noteLogs>>

(***************************************************************************)
(* FetchCounter                                                            *)
(***************************************************************************)
Amounts == (0 - MaxRefund)..MaxAmount
Callers == 1..NumCallers

\* NewFetchCounter(n): the counter starts at int32(n), the limit is n.
NewFetchCounter(n) == [count |-> ToInt32(n), limit |-> n]

\* A Current that reports the fetches remaining instead of those consumed.
CurrentRemaining == count

\* Current(): limit - int(atomic.LoadInt32(count)).
Current == limit - count

\* The value atomic.AddInt32(c.count, -int32(n)) stores and returns.
ConsumeAdd(c, n) == AddInt32(c, NegInt32(ToInt32(n)))

\* A Consume that also refuses the call that uses up the budget exactly.
ConsumeResultOffByOne(n, remaining) ==
  IF remaining <= 0
    THEN [kind |-> "budget", n |-> n, total |-> limit - remaining, limit |-> limit]
    ELSE Nil

\* What Consume returns once it holds `remaining`.
ConsumeResult(n, remaining) ==
  IF remaining < 0
    THEN [kind |-> "budget", n |-> n, total |-> IntSub(limit, remaining), limit |-> limit]
    ELSE Nil

IdleCaller == [pc |-> "idle", n |-> 0, remaining |-> 0, entry |-> 0]

\* No counter in use.
CounterIdle ==
  /\ limit = 0
  /\ count = 0
  /\ callers = [t \in Callers |-> IdleCaller]
  /\ calls = << >>
  /\ total = 0
  /\ observed = << >>

\* No call of EvaluateMany.
ManyIdle ==
  /\ exprs = << >>
  /\ mpc = "idle"
  /\ launched = 0
  /\ tasks = << >>
  /\ results = << >>
  /\ array = << >>
  /\ drainI = 0
  /\ drained = << >>
  /\ ret = [returned |-> FALSE]

\* No call of MakeFunction.
MakeIdle ==
  /\ callable = [kind |-> "none"]
  /\ made = [done |-> FALSE]

\* No EvaluationNotes in use.
NotesIdle ==
  /\ notesNil = FALSE
  /\ mutex = 0
  /\ notes = << >>
  /\ noters = << >>

\* No EvaluationContext in use.
ContextIdle ==
  /\ contexts = << >>
  /\ int32s = << >>
  /\ noteLogs = << >>

RestIdle == MakeIdle /\ NotesIdle /\ ContextIdle

\* No call of Compute.
ComputeIdle ==
  /\ funcType = [in |-> << >>, out |-> << >>]
  /\ arguments = << >>
  /\ cpc = "idle"
  /\ argumentFuncs = << >>
  /\ btasks = << >>
  /\ waiter = 0
  /\ argValues = << >>
  /\ errors = << >>
  /\ sent = << >>
  /\ evalCount = << >>
  /\ invoked = << >>
  /\ cret = [returned |-> FALSE]
  /\ output = << >>
  /\ panicked = FALSE

InitCounter ==
  /\ \E n \in 0..MaxLimit :
       /\ limit = NewFetchCounter(n).limit
       /\ count = NewFetchCounter(n).count
  /\ callers = [t \in Callers |-> IdleCaller]
  /\ calls = << >>
  /\ total = 0
  /\ observed = << >>
  /\ ManyIdle
  /\ ComputeIdle
  /\ RestIdle

\* Consume, line 211: the atomic add.
ConsumeAtomicAdd(t, n) ==
  /\ callers[t].pc = "idle"
  /\ Len(calls) < MaxCalls
  /\ count' = ConsumeAdd(count, n)
  /\ total' = total + n
  /\ calls' = Append(calls, [n |-> n, cum |-> total + n, err |-> [kind |-> "pending"]])
  /\ callers' = [callers EXCEPT ![t] =
                   [pc |-> "added", n |-> n, remaining |-> ConsumeAdd(count, n), entry |-> Len(calls) + 1]]
  /\ UNCHANGED <<limit, observed>>
  /\ UNCHANGED <<manyVars, computeVars, restVars>>

\* Consume, lines 212-218: the test of `remaining` and the return.
ConsumeReturn(t) ==
  /\ callers[t].pc = "added"
  /\ calls' = [calls EXCEPT ![callers[t].entry].err =
                 ConsumeResult(callers[t].n, callers[t].remaining)]
  /\ callers' = [callers EXCEPT ![t] = IdleCaller]
  /\ UNCHANGED <<limit, count, total, observed>>
  /\ UNCHANGED <<manyVars, computeVars, restVars>>

\* A call of Current() by anyone holding a copy of the counter.
CallCurrent ==
  /\ Len(observed) < 1
  /\ observed' = Append(observed, [value |-> Current, at |-> Len(calls), cum |-> total])
  /\ UNCHANGED <<limit, count, callers, calls, total>>
  /\ UNCHANGED <<manyVars, computeVars, restVars>>

NextCounter ==
  \/ \E t \in Callers, n \in Amounts : ConsumeAtomicAdd(t, n)
  \/ \E t \in Callers : ConsumeReturn(t)
  \/ CallCurrent

SpecCounter == InitCounter /\ [][NextCounter]_vars

\* Consume(n) called by a single task and run to its return: the atomic add,
\* the test of `remaining` and the result.
ConsumeCall(n) ==
  /\ Len(calls) < MaxSequentialCalls
  /\ count' = ConsumeAdd(count, n)
  /\ total' = IntAdd(total, n)
  /\ calls' = Append(calls, [n |-> n, cum |-> IntAdd(total, n),
                             err |-> ConsumeResult(n, ConsumeAdd(count, n))])
  /\ UNCHANGED <<limit, callers, observed>>
  /\ UNCHANGED <<manyVars, computeVars, restVars>>

NextSequential ==
  \/ \E n \in Amounts : ConsumeCall(n)
  \/ CallCurrent

\* One task that calls Consume and Current one after the other.
SpecSequential == InitCounter /\ [][NextSequential]_vars

\* Limits and non-negative amounts at both ends of the int32 range.  The
\* limit stays below MaxInt32, so that a cumulative total held at MaxInt32 is
\* above the limit exactly when the true total is.
WideLimits == {0, 1, MaxInt32 - 1}
WideAmounts == {0, 1, 2, MaxInt32}

InitWide ==
  /\ \E n \in WideLimits :
       /\ limit = NewFetchCounter(n).limit
       /\ count = NewFetchCounter(n).count
  /\ callers = [t \in Callers |-> IdleCaller]
  /\ calls = << >>
  /\ total = 0
  /\ observed = << >>
  /\ ManyIdle
  /\ ComputeIdle
  /\ RestIdle

NextWide == \E n \in WideAmounts : ConsumeCall(n)

\* One task that calls Consume with amounts over the whole int32 range.
SpecWide == InitWide /\ [][NextWide]_vars

(***************************************************************************)
(* EvaluateMany                                                            *)
(***************************************************************************)
\* The Value variants the model draws from, and the zero Value (a nil interface).
ScalarValue(v) == [kind |-> "scalar", v |-> v]
StringValue(v) == [kind |-> "string", v |-> v]
NilValue == [kind |-> "nil", v |-> 0]
Values == {ScalarValue(v) : v \in 1..MaxValue}

\* The expressions at position i whose Evaluate yields a value of `vals` or
\* fails.  `id` tells the errors of different expressions apart.
Expressions(i, vals) ==
  {[id |-> i, fails |-> FALSE, value |-> v] : v \in vals}
    \cup {[id |-> i, fails |-> TRUE, value |-> NilValue]}

\* expr.Evaluate(context): a value and a nil error, or an error.
Evaluate(e) ==
  IF e.fails THEN [err |-> [kind |-> "evaluate", of |-> e.id], value |-> NilValue]
             ELSE [err |-> Nil, value |-> e.value]

length == Len(exprs)

\* A channel with room for half of the results only.
ResultsCapHalf == length \div 2

\* make(chan result, length): the capacity of `results`.
ResultsCap == length

\* A drain loop that stops one result short.
DrainCountShort == length - 1

\* for i := 0; i < length; i++: the number of results the drain loop receives.
DrainCount == length

\* A loop that files each value under the order of its arrival.
StoreByArrival(arr, r, i) == [arr EXCEPT ![i] = r.value]

\* array[result.index] = result.value, in iteration i of the drain loop.
StoreResult(arr, r, i) == [arr EXCEPT ![r.index] = r.value]

\* An error return that hands out the values collected so far.
ErrorReturnPartial(arr, err) ==
  [returned |-> TRUE, nilValues |-> FALSE, values |-> arr, err |-> err]

\* return nil, err
ErrorReturn(arr, err) ==
  [returned |-> TRUE, nilValues |-> TRUE, values |-> << >>, err |-> err]

\* return values, nil
ValuesReturn(vals) ==
  [returned |-> TRUE, nilValues |-> FALSE, values |-> vals, err |-> Nil]

NoTask == [pc |-> "none", err |-> Nil, value |-> NilValue, late |-> FALSE]

InitMany ==
  /\ \E n \in 0..MaxExprs :
       exprs \in [1..n -> UNION {Expressions(i, Values) : i \in 1..n}]
  /\ \A i \in DOMAIN exprs : exprs[i].id = i
  /\ mpc = "start"
  /\ launched = 0
  /\ tasks = [i \in 1..MaxExprs |-> NoTask]
  /\ results = << >>
  /\ array = << >>
  /\ drainI = 0
  /\ drained = << >>
  /\ ret = [returned |-> FALSE]
  /\ CounterIdle
  /\ ComputeIdle
  /\ RestIdle

\* length == 0: return []Value{}, nil.
EvaluateManyEmpty ==
  /\ mpc = "start"
  /\ length = 0
  /\ ret' = ValuesReturn(<< >>)
  /\ mpc' = "returned"
  /\ UNCHANGED <<exprs, launched, tasks, results, array, drainI, drained>>
  /\ UNCHANGED <<counterVars, computeVars, restVars>>

\* length == 1: the expression is evaluated in the caller.
EvaluateManySingle ==
  /\ mpc = "start"
  /\ length = 1
  /\ ret' = IF Evaluate(exprs[1]).err # Nil
              THEN ErrorReturn(<< >>, Evaluate(exprs[1]).err)
              ELSE ValuesReturn(<<Evaluate(exprs[1]).value>>)
  /\ mpc' = "returned"
  /\ UNCHANGED <<exprs, launched, tasks, results, array, drainI, drained>>
  /\ UNCHANGED <<counterVars, computeVars, restVars>>

\* length > 1: make the channel and enter the launch loop.
EvaluateManyFork ==
  /\ mpc = "start"
  /\ length > 1
  /\ results' = << >>
  /\ mpc' = "launch"
  /\ UNCHANGED <<exprs, launched, tasks, array, drainI, drained, ret>>
  /\ UNCHANGED <<counterVars, computeVars, restVars>>

\* One iteration of the launch loop: go func(i, expr).  After the last one
\* `array` is made and the drain loop begins.
EvaluateManyLaunch ==
  /\ mpc = "launch"
  /\ launched < length
  /\ tasks' = [tasks EXCEPT ![launched + 1].pc = "run"]
  /\ launched' = launched + 1
  /\ IF launched + 1 = length
       THEN /\ mpc' = "drain"
            /\ array' = [i \in 1..length |-> NilValue]
            /\ drainI' = 0
       ELSE UNCHANGED <<mpc, array, drainI>>
  /\ UNCHANGED <<exprs, results, drained, ret>>
  /\ UNCHANGED <<counterVars, computeVars, restVars>>

\* The goroutine of expression i: value, err := expr.Evaluate(context).
TaskEvaluate(i) ==
  /\ tasks[i].pc = "run"
  /\ tasks' = [tasks EXCEPT ![i] = [pc |-> "send", err |-> Evaluate(exprs[i]).err,
                                    value |-> Evaluate(exprs[i]).value, late |-> FALSE]]
  /\ UNCHANGED <<exprs, mpc, launched, results, array, drainI, drained, ret>>
  /\ UNCHANGED <<counterVars, computeVars, restVars>>

\* The goroutine of expression i: results <- result{i, err, value}, which
\* waits while the channel is full.
TaskSend(i) ==
  /\ tasks[i].pc = "send"
  /\ Len(results) < ResultsCap
  /\ results' = Append(results, [index |-> i, err |-> tasks[i].err, value |-> tasks[i].value])
  /\ tasks' = [tasks EXCEPT ![i].pc = "done", ![i].late = (mpc = "returned")]
  /\ UNCHANGED <<exprs, mpc, launched, array, drainI, drained, ret>>
  /\ UNCHANGED <<counterVars, computeVars, restVars>>

\* One iteration of the drain loop: result := <-results, which waits for a
\* result; an error ends the call, a value is filed under its index.
EvaluateManyReceive ==
  /\ mpc = "drain"
  /\ drainI < DrainCount
  /\ results # << >>
  /\ results' = Tail(results)
  /\ drained' = Append(drained, Head(results))
  /\ IF Head(results).err # Nil
       THEN /\ ret' = ErrorReturn(array, Head(results).err)
            /\ mpc' = "returned"
            /\ UNCHANGED <<array, drainI>>
       ELSE /\ array' = StoreResult(array, Head(results), drainI + 1)
            /\ drainI' = drainI + 1
            /\ UNCHANGED <<ret, mpc>>
  /\ UNCHANGED <<exprs, launched, tasks>>
  /\ UNCHANGED <<counterVars, computeVars, restVars>>

\* The drain loop is over: return array, nil.
EvaluateManyReturn ==
  /\ mpc = "drain"
  /\ drainI >= DrainCount
  /\ ret' = ValuesReturn(array)
  /\ mpc' = "returned"
  /\ UNCHANGED <<exprs, launched, tasks, results, array, drainI, drained>>
  /\ UNCHANGED <<counterVars, computeVars, restVars>>

TaskStep(i) == TaskEvaluate(i) \/ TaskSend(i)

CallerStep ==
  \/ EvaluateManyEmpty
  \/ EvaluateManySingle
  \/ EvaluateManyFork
  \/ EvaluateManyLaunch
  \/ EvaluateManyReceive
  \/ EvaluateManyReturn

NextMany ==
  \/ CallerStep
  \/ \E i \in 1..MaxExprs : TaskStep(i)

SpecMany == InitMany /\ [][NextMany]_vars

\* The goroutines and the caller are scheduled: none that can take a step is
\* left waiting forever.
SpecManyFair ==
  /\ SpecMany
  /\ WF_vars(CallerStep)
  /\ \A i \in 1..MaxExprs : WF_vars(TaskEvaluate(i)) /\ WF_vars(TaskSend(i))

(***************************************************************************)
(* MakeFunction and the Compute closure it generates                       *)
(***************************************************************************)
\* reflect.Type of a parameter or result: a named type or a pointer to one.
T(base) == [ptr |-> FALSE, base |-> base]
PtrTo(t) == [t EXCEPT !.ptr = TRUE]
Elem(t) == [t EXCEPT !.ptr = FALSE]

stringType == T("string")
scalarType == T("scalar")
scalarSetType == T("scalarSet")
durationType == T("duration")
timeseriesType == T("timeseries")
valueType == T("value")
expressionType == T("expression")
groupsType == T("groups")
contextType == T("context")
timerangeType == T("timerange")
errorType == T("error")

\* The cases of the two switches over a parameter's type.
ProviderTypes == {contextType, timerangeType, groupsType}
OrdinaryTypes == {stringType, scalarType, scalarSetType, durationType,
                  timeseriesType, valueType, expressionType}
OptionalTypes == {PtrTo(t) : t \in OrdinaryTypes}

\* MakeFunction's loop over the parameters from parameter i on, with the counts
\* so far: the counts at the end, or the panic it runs into.
RECURSIVE InspectFrom(_, _, _)
InspectFrom(in, i, acc) ==
  IF i > Len(in) THEN acc
  ELSE IF in[i] \in {contextType, timerangeType} THEN InspectFrom(in, i + 1, acc)
  ELSE IF in[i] = groupsType
    THEN InspectFrom(in, i + 1, [acc EXCEPT !.allowsGroupBy = TRUE])
  ELSE IF in[i] \in OrdinaryTypes
    THEN IF acc.optional > 0
           THEN [acc EXCEPT !.panic = "Non-optional arguments cannot occur after optional ones."]
           ELSE InspectFrom(in, i + 1, [acc EXCEPT !.required = acc.required + 1])
  ELSE IF in[i] \in OptionalTypes
    THEN InspectFrom(in, i + 1, [acc EXCEPT !.optional = acc.optional + 1])
  ELSE [acc EXCEPT !.panic = "MetricFunction function argument asks for unsupported type"]

\* A parameter loop that counts the context parameters as required arguments.
InspectCountingContext(in) ==
  [InspectFrom(in, 1, [required |-> 0, optional |-> 0, allowsGroupBy |-> FALSE, panic |-> ""])
     EXCEPT !.required = @ + Cardinality({i \in DOMAIN in : in[i] = contextType})]

Inspect(in) ==
  InspectFrom(in, 1, [required |-> 0, optional |-> 0, allowsGroupBy |-> FALSE, panic |-> ""])

\* The types that are returned as a Value: they implement the interface.
ValueImplementations ==
  {scalarSetType, T("StringValue"), T("ScalarValue"), T("DurationValue"), T("SeriesListValue")}

\* reflect.Type.ConvertibleTo for the two interfaces MakeFunction asks about:
\* the interface itself and the types that implement it.
ConvertibleTo(t, u) ==
  \/ t = u
  \/ u = valueType /\ t \in ValueImplementations

\* A MakeFunction that lets any second result pass.
ChecksNoSecondResult(f) ==
  IF f.kind # "func" THEN "MakeFunction expects a function as input."
  ELSE IF f.variadic THEN "MakeFunction argument cannot be variadic."
  ELSE IF Len(f.out) = 0 THEN "MakeFunction argument function must return a value."
  ELSE IF Len(f.out) > 2 THEN "MakeFunction argument function must return at most two values."
  ELSE IF ~ConvertibleTo(f.out[1], valueType) /\ f.out[1] # timeseriesType
    THEN "MakeFunction argument function first return type must be convertible to function.Value."
  ELSE ""

\* MakeFunction's checks before the parameter loop: the panic, empty when none.
Checks(f) ==
  IF f.kind # "func" THEN "MakeFunction expects a function as input."
  ELSE IF f.variadic THEN "MakeFunction argument cannot be variadic."
  ELSE IF Len(f.out) = 0 THEN "MakeFunction argument function must return a value."
  ELSE IF Len(f.out) > 2 THEN "MakeFunction argument function must return at most two values."
  ELSE IF ~ConvertibleTo(f.out[1], valueType) /\ f.out[1] # timeseriesType
    THEN "MakeFunction argument function first return type must be convertible to function.Value."
  ELSE IF Len(f.out) = 2 /\ ~ConvertibleTo(f.out[2], errorType)
    THEN "MakeFunction argument function second return type must convertible be error."
  ELSE ""

\* MakeFunction(name, function): the panic, or the MetricFunction (its
\* Compute is the closure modelled below).
MakeFunction(name, f) ==
  IF Checks(f) # "" THEN [done |-> TRUE, panic |-> Checks(f)]
  ELSE IF Inspect(f.in).panic # "" THEN [done |-> TRUE, panic |-> Inspect(f.in).panic]
  ELSE [done |-> TRUE, panic |-> "",
        FunctionName |-> name,
        MinArguments |-> Inspect(f.in).required,
        MaxArguments |-> Inspect(f.in).required + Inspect(f.in).optional,
        AllowsGroupBy |-> Inspect(f.in).allowsGroupBy]

\* A type MakeFunction's switch has no case for.
intType == T("int")

\* The parameter types and result lists the model draws callables from.
MakeParamTypes ==
  {contextType, timerangeType, groupsType, scalarType, timeseriesType, expressionType,
   PtrTo(scalarType), PtrTo(valueType), intType}
MakeOutTypes ==
  {<< >>, <<valueType>>, <<timeseriesType>>, <<scalarSetType>>, <<scalarType>>,
   <<valueType, errorType>>, <<timeseriesType, scalarType>>,
   <<valueType, errorType, errorType>>}

InitMake ==
  /\ \/ callable = [kind |-> "other", variadic |-> FALSE, in |-> << >>, out |-> << >>]
     \/ \E n \in 0..MaxParams :
          callable \in [kind : {"func"}, variadic : BOOLEAN,
                        in : [1..n -> MakeParamTypes], out : MakeOutTypes]
  /\ made = [done |-> FALSE]
  /\ NotesIdle /\ ContextIdle
  /\ CounterIdle /\ ManyIdle /\ ComputeIdle

\* MakeFunction("f", callable), once at start-up.
CallMakeFunction ==
  /\ ~made.done
  /\ made' = MakeFunction("f", callable)
  /\ UNCHANGED <<callable, notesVars, contextVars>>
  /\ UNCHANGED <<counterVars, manyVars, computeVars>>

NextMake == CallMakeFunction

SpecMake == InitMake /\ [][NextMake]_vars

\* The expression nextArgument returns when there is none left.
NoExpression == [id |-> 0, fails |-> FALSE, value |-> NilValue]

\* The conversion of a Value to the kind a parameter asks for (ToScalar,
\* ToString, ...): the value's payload, or a conversion failure that the
\* caller decorates with the expression's query string.
ConvertTo(val, t, e) ==
  IF val.kind = t.base
    THEN [err |-> Nil, value |-> [kind |-> t.base, v |-> val.v]]
    ELSE [err |-> [kind |-> "conversion", of |-> e.id], value |-> NilValue]

\* An evalTo that evaluates the expression also when the Expression itself is
\* asked for.
EvalToEvaluating(e, t) ==
  IF e = NoExpression
    THEN [err |-> Nil, value |-> NilValue, evaluated |-> TRUE, panic |-> TRUE]
    ELSE [err |-> Evaluate(e).err,
          value |-> IF Evaluate(e).err # Nil THEN NilValue
                    ELSE IF t = expressionType THEN [kind |-> "expression", v |-> e.id]
                    ELSE IF t = valueType THEN Evaluate(e).value
                    ELSE ConvertTo(Evaluate(e).value, t, e).value,
          evaluated |-> TRUE, panic |-> FALSE]

\* evalTo(expression, resultType), with `panic` set where it calls a method
\* of a nil Expression, and `evaluated` where it calls Evaluate.
EvalTo(e, t) ==
  IF t = expressionType
    THEN [err |-> Nil, value |-> [kind |-> "expression", v |-> e.id],
          evaluated |-> FALSE, panic |-> FALSE]
  ELSE IF e = NoExpression
    THEN [err |-> Nil, value |-> NilValue, evaluated |-> TRUE, panic |-> TRUE]
  ELSE IF Evaluate(e).err # Nil
    THEN [err |-> Evaluate(e).err, value |-> NilValue, evaluated |-> TRUE, panic |-> FALSE]
  ELSE IF t = valueType
    THEN [err |-> Nil, value |-> Evaluate(e).value, evaluated |-> TRUE, panic |-> FALSE]
  ELSE [err |-> ConvertTo(Evaluate(e).value, t, e).err,
        value |-> ConvertTo(Evaluate(e).value, t, e).value,
        evaluated |-> TRUE, panic |-> FALSE]

\* provideValue(x): a binding that returns x.
ProvideValue(x) == [kind |-> "provide", value |-> x, arg |-> NoExpression, type |-> contextType]

\* provideZeroValue(t): a binding that returns reflect.Zero(t), for a pointer
\* type the nil pointer.
ProvideZeroValue(t) == ProvideValue([kind |-> "zero", v |-> t.base])

\* ptrTo(x): a pointer to a copy of x.
PtrToValue(x) == [kind |-> "pointer", v |-> x]

\* The binding of an ordinary parameter: evalTo(arg, argType), also when
\* there is no argument left.
BindOrdinary(arg, t) == [kind |-> "eval", value |-> NilValue, arg |-> arg, type |-> t]

\* An optional parameter bound like an ordinary one, argument or not.
BindOptionalAlways(arg, t) ==
  [kind |-> "evalptr", value |-> NilValue, arg |-> arg, type |-> Elem(t)]

\* The binding of an optional parameter: the zero value when no argument is
\* left, else evalTo(arg, argType.Elem()) behind a pointer.
BindOptional(arg, t) ==
  IF arg = NoExpression
    THEN ProvideZeroValue(t)
    ELSE [kind |-> "evalptr", value |-> NilValue, arg |-> arg, type |-> Elem(t)]

\* What the context provides.
ContextValue == [kind |-> "context", v |-> 0]
TimerangeValue == [kind |-> "timerange", v |-> 0]
GroupsValue == [kind |-> "groups", v |-> 0]

\* A nextArgument that hands the arguments out from the last one backwards.
NextArgumentBackwards(args, expressionArgument) ==
  IF expressionArgument >= Len(args) THEN NoExpression
                                     ELSE args[Len(args) - expressionArgument]

\* nextArgument(): arguments[expressionArgument], or nil when none is left.
NextArgument(args, expressionArgument) ==
  IF expressionArgument >= Len(args) THEN NoExpression ELSE args[expressionArgument + 1]

\* A nextArgument that never advances expressionArgument.
NextArgumentCounterStuck(args, expressionArgument) == expressionArgument

\* expressionArgument after nextArgument().
NextArgumentCounter(args, expressionArgument) ==
  IF expressionArgument >= Len(args) THEN expressionArgument ELSE expressionArgument + 1

\* The binding loop, from parameter i on, with expressionArgument arguments
\* consumed: the rest of argumentFuncs.
RECURSIVE BindFrom(_, _, _, _)
BindFrom(in, args, i, expressionArgument) ==
  IF i > Len(in) THEN << >>
  ELSE IF in[i] = contextType
    THEN <<ProvideValue(ContextValue)>> \o BindFrom(in, args, i + 1, expressionArgument)
  ELSE IF in[i] = timerangeType
    THEN <<ProvideValue(TimerangeValue)>> \o BindFrom(in, args, i + 1, expressionArgument)
  ELSE IF in[i] = groupsType
    THEN <<ProvideValue(GroupsValue)>> \o BindFrom(in, args, i + 1, expressionArgument)
  ELSE IF in[i] \in OrdinaryTypes
    THEN <<BindOrdinary(NextArgument(args, expressionArgument), in[i])>>
           \o BindFrom(in, args, i + 1, NextArgumentCounter(args, expressionArgument))
  ELSE <<BindOptional(NextArgument(args, expressionArgument), in[i])>>
           \o BindFrom(in, args, i + 1, NextArgumentCounter(args, expressionArgument))

\* argumentFuncs[i](): what the binding yields.
RunBinding(f) ==
  IF f.kind = "provide"
    THEN [err |-> Nil, value |-> f.value, evaluated |-> FALSE, panic |-> FALSE]
  ELSE IF f.kind = "eval"
    THEN EvalTo(f.arg, f.type)
  ELSE IF EvalTo(f.arg, f.type).err # Nil \/ EvalTo(f.arg, f.type).panic
    THEN EvalTo(f.arg, f.type)
    ELSE [EvalTo(f.arg, f.type) EXCEPT !.value = PtrToValue(EvalTo(f.arg, f.type).value)]

\* The interface types among the parameter types.
InterfaceTypes == {valueType, expressionType}

\* Whether funcValue.Call accepts argument val for a parameter of type t.
\* reflect.ValueOf of a nil Expression is the zero reflect.Value, which Call
\* refuses; ptrTo(x) points to the dynamic type of x, which is never the
\* interface type an optional Value or Expression parameter points to.
Assignable(val, t) ==
  IF val.kind = "expression" THEN val.v # 0
  ELSE IF val.kind = "pointer" THEN Elem(t) \notin InterfaceTypes
  ELSE TRUE

\* funcValue.Call(argValues) panics before it invokes the callable.
CallPanics(in, vals) == \E i \in DOMAIN in : ~Assignable(vals[i], in[i])

\* The error the join returns: the one received from the channel.
ReceiveLastError(ch) == ch[Len(ch)]

\* <-errors: the error that was sent first.
ReceiveError(ch) == Head(ch)

\* The Value Compute returns for the callable's first result: the payload
\* converted to the Value of its type, or the result itself.
WrapOutput(t, raw) ==
  IF t = stringType THEN [kind |-> "string", v |-> raw]
  ELSE IF t = scalarType THEN [kind |-> "scalar", v |-> raw]
  ELSE IF t = scalarSetType THEN [kind |-> "scalarSet", v |-> raw]
  ELSE IF t = durationType THEN [kind |-> "duration", label |-> "", v |-> raw]
  ELSE IF t = timeseriesType THEN [kind |-> "timeseries", v |-> raw]
  ELSE raw

\* The types whose results Compute converts; any other result is asserted to
\* be a Value, and the assertion panics on the nil interface.
ConvertedTypes == {stringType, scalarType, scalarSetType, durationType, timeseriesType}
WrapPanics(t, raw) == t \notin ConvertedTypes /\ raw = NilValue

\* What the callable may return first: a payload of the declared type, and
\* for an interface type also nil.
FirstResults(t) ==
  IF t \in ConvertedTypes THEN 1..MaxValue ELSE Values \cup {NilValue}

\* What the callable may return second, when it declares an error.
CallableError == [kind |-> "callable", of |-> 0]

\* The parameter types the model draws signatures from, and the result types.
ParamTypes == {contextType, groupsType, scalarType, expressionType,
               PtrTo(scalarType), PtrTo(expressionType)}
OutTypes == {<<valueType>>, <<timeseriesType, errorType>>}

\* What an argument expression may evaluate to.
ArgumentValues == {ScalarValue(1), StringValue(1)}

NumIn == Len(funcType.in)

\* The signatures in which every provider occurs, with arguments that
\* evaluate to different scalars.
ProviderParamTypes == {contextType, timerangeType, groupsType, scalarType, PtrTo(scalarType)}
ProviderArgumentValues == {ScalarValue(1), ScalarValue(MaxValue)}

\* A call of the Compute of an accepted callable with parameters of the types.
InitComputeOf(types, vals) ==
  /\ \E n \in 0..MaxParams :
       /\ funcType \in [in : [1..n -> types], out : OutTypes]
       /\ MakeFunction("f", [kind |-> "func", variadic |-> FALSE,
                             in |-> funcType.in, out |-> funcType.out]).panic = ""
  /\ \E n \in 0..MaxArgs :
       arguments \in [1..n -> UNION {Expressions(i, vals) : i \in 1..n}]
  /\ \A i \in DOMAIN arguments : arguments[i].id = i
  /\ cpc = "start"
  /\ argumentFuncs = << >>
  /\ btasks = << >>
  /\ waiter = 0
  /\ argValues = << >>
  /\ errors = << >>
  /\ sent = << >>
  /\ evalCount = [k \in 0..Len(arguments) |-> 0]
  /\ invoked = << >>
  /\ cret = [returned |-> FALSE]
  /\ output = << >>
  /\ panicked = FALSE
  /\ CounterIdle
  /\ ManyIdle
  /\ RestIdle

InitCompute == InitComputeOf(ParamTypes, ArgumentValues)
InitProviders == InitComputeOf(ProviderParamTypes, ProviderArgumentValues)

\* A Wait that returns while one goroutine is still running.
WaitOverEarly(w) == w <= 1

\* waiter.Wait() returns when the WaitGroup counter is zero.
WaitOver(w) == w = 0

\* Compute up to waiter.Wait(): the bindings are built and one goroutine per
\* parameter is started, each counted by the WaitGroup.
ComputeBind ==
  /\ cpc = "start"
  /\ ~panicked
  /\ argumentFuncs' = BindFrom(funcType.in, arguments, 1, 0)
  /\ argValues' = [i \in 1..NumIn |-> NilValue]
  /\ errors' = << >>
  /\ waiter' = NumIn
  /\ btasks' = [i \in 1..NumIn |-> [pc |-> "run", err |-> Nil]]
  /\ cpc' = "wait"
  /\ UNCHANGED <<funcType, arguments, sent, evalCount, invoked, output, cret, panicked>>
  /\ UNCHANGED <<counterVars, manyVars, restVars>>

\* The goroutine of parameter i: it runs the binding, sends the error or
\* stores the argument, and leaves through waiter.Done().  A panic ends the
\* process.
BindingTask(i) ==
  /\ cpc # "start"
  /\ ~panicked
  /\ i \in DOMAIN btasks
  /\ btasks[i].pc = "run"
  /\ LET r == RunBinding(argumentFuncs[i]) IN
       /\ evalCount' = IF r.evaluated
                         THEN [evalCount EXCEPT ![argumentFuncs[i].arg.id] = @ + 1]
                         ELSE evalCount
       /\ IF r.panic
            THEN /\ panicked' = TRUE
                 /\ UNCHANGED <<btasks, errors, sent, argValues, waiter>>
            ELSE /\ panicked' = FALSE
                 /\ btasks' = [btasks EXCEPT ![i] = [pc |-> "done", err |-> r.err]]
                 /\ waiter' = waiter - 1
                 /\ IF r.err # Nil
                      THEN /\ Len(errors) < NumIn
                           /\ errors' = Append(errors, r.err)
                           /\ sent' = Append(sent, i)
                           /\ UNCHANGED argValues
                      ELSE /\ argValues' = [argValues EXCEPT ![i] = r.value]
                           /\ UNCHANGED <<errors, sent>>
  /\ UNCHANGED <<funcType, arguments, cpc, argumentFuncs, invoked, output, cret>>
  /\ UNCHANGED <<counterVars, manyVars, restVars>>

\* waiter.Wait() is over with an error in the channel: return nil, <-errors.
ComputeReturnError ==
  /\ cpc = "wait"
  /\ ~panicked
  /\ WaitOver(waiter)
  /\ Len(errors) # 0
  /\ cret' = [returned |-> TRUE, value |-> NilValue, err |-> ReceiveError(errors)]
  /\ errors' = Tail(errors)
  /\ cpc' = "returned"
  /\ UNCHANGED <<funcType, arguments, argumentFuncs, btasks, waiter, argValues,
                 sent, evalCount, invoked, output, panicked>>
  /\ UNCHANGED <<counterVars, manyVars, restVars>>

\* waiter.Wait() is over with no error: funcValue.Call panics on an argument
\* it cannot assign, else the callable is invoked with the resolved
\* arguments; its error, when it declares and returns one, is returned, else
\* its first result as a Value, which panics when that result is a nil Value.
ComputeCall ==
  /\ cpc = "wait"
  /\ ~panicked
  /\ WaitOver(waiter)
  /\ Len(errors) = 0
  /\ IF CallPanics(funcType.in, argValues)
       THEN /\ panicked' = TRUE
            /\ UNCHANGED <<invoked, output, cret, cpc>>
       ELSE /\ invoked' = Append(invoked, argValues)
            /\ \E first \in FirstResults(funcType.out[1]), err \in {Nil, CallableError} :
                 /\ output' = IF Len(funcType.out) = 2 THEN <<first, err>> ELSE <<first>>
                 /\ IF Len(output') = 2 /\ output'[2] # Nil
                      THEN /\ cret' = [returned |-> TRUE, value |-> NilValue,
                                       err |-> output'[2]]
                           /\ cpc' = "returned"
                           /\ UNCHANGED panicked
                      ELSE IF WrapPanics(funcType.out[1], output'[1])
                        THEN /\ panicked' = TRUE
                             /\ UNCHANGED <<cret, cpc>>
                        ELSE /\ cret' = [returned |-> TRUE,
                                         value |-> WrapOutput(funcType.out[1], output'[1]),
                                         err |-> Nil]
                             /\ cpc' = "returned"
                             /\ UNCHANGED panicked
  /\ UNCHANGED <<funcType, arguments, argumentFuncs, btasks, waiter, argValues,
                 errors, sent, evalCount>>
  /\ UNCHANGED <<counterVars, manyVars, restVars>>

NextCompute ==
  \/ ComputeBind
  \/ \E i \in 1..MaxParams : BindingTask(i)
  \/ ComputeReturnError
  \/ ComputeCall

SpecCompute == InitCompute /\ [][NextCompute]_vars
SpecProviders == InitProviders /\ [][NextCompute]_vars

\* The goroutines of the bindings and the caller are scheduled: none that can
\* take a step is left waiting forever.
SpecComputeFair ==
  /\ SpecCompute
  /\ WF_vars(ComputeBind)
  /\ \A i \in 1..MaxParams : WF_vars(BindingTask(i))
  /\ WF_vars(ComputeReturnError)
  /\ WF_vars(ComputeCall)

(***************************************************************************)
(* EvaluationNotes: AddNote and Notes                                      *)
(***************************************************************************)
NoteTexts == {"a", "b"}
Noters == 1..NumNoters
\* The task that calls Notes().
NotesReader == NumNoters + 1

\* sync.Mutex.Lock proceeds only when nobody holds the mutex.
LockNoWait(m) == TRUE
LockFree(m) == m = 0

InitNotes ==
  /\ notesNil \in BOOLEAN
  /\ mutex = 0
  /\ notes = << >>
  /\ noters \in [Noters \cup {NotesReader} ->
                   {[pc |-> "start", note |-> n, local |-> << >>, after |-> FALSE] :
                      n \in NoteTexts}]
  /\ noters[NotesReader].note = "a"
  /\ CounterIdle /\ ManyIdle /\ ComputeIdle /\ MakeIdle /\ ContextIdle

NotersDone == \A t \in Noters : noters[t].pc = "done"

\* if notes == nil { return }
AddNoteNil(t) ==
  /\ t \in Noters
  /\ noters[t].pc = "start"
  /\ notesNil
  /\ noters' = [noters EXCEPT ![t].pc = "done"]
  /\ UNCHANGED <<notesNil, mutex, notes>>
  /\ UNCHANGED <<counterVars, manyVars, computeVars, makeVars, contextVars>>

\* notes.mutex.Lock()
AddNoteLock(t) ==
  /\ t \in Noters
  /\ noters[t].pc = "start"
  /\ ~notesNil
  /\ LockFree(mutex)
  /\ mutex' = t
  /\ noters' = [noters EXCEPT ![t].pc = "locked"]
  /\ UNCHANGED <<notesNil, notes>>
  /\ UNCHANGED <<counterVars, manyVars, computeVars, makeVars, contextVars>>

\* append(notes.notes, note): the slice is read ...
AddNoteRead(t) ==
  /\ t \in Noters
  /\ noters[t].pc = "locked"
  /\ noters' = [noters EXCEPT ![t].pc = "read", ![t].local = notes]
  /\ UNCHANGED <<notesNil, mutex, notes>>
  /\ UNCHANGED <<counterVars, manyVars, computeVars, makeVars, contextVars>>

\* ... and notes.notes = the slice with the note appended.
AddNoteWrite(t) ==
  /\ t \in Noters
  /\ noters[t].pc = "read"
  /\ notes' = Append(noters[t].local, noters[t].note)
  /\ noters' = [noters EXCEPT ![t].pc = "written"]
  /\ UNCHANGED <<notesNil, mutex>>
  /\ UNCHANGED <<counterVars, manyVars, computeVars, makeVars, contextVars>>

\* defer notes.mutex.Unlock()
AddNoteUnlock(t) ==
  /\ t \in Noters
  /\ noters[t].pc = "written"
  /\ mutex' = 0
  /\ noters' = [noters EXCEPT ![t].pc = "done"]
  /\ UNCHANGED <<notesNil, notes>>
  /\ UNCHANGED <<counterVars, manyVars, computeVars, makeVars, contextVars>>

\* Notes() of a nil *EvaluationNotes returns nil.
NotesOfNil ==
  /\ noters[NotesReader].pc = "start"
  /\ notesNil
  /\ noters' = [noters EXCEPT ![NotesReader].pc = "done",
                              ![NotesReader].after = NotersDone]
  /\ UNCHANGED <<notesNil, mutex, notes>>
  /\ UNCHANGED <<counterVars, manyVars, computeVars, makeVars, contextVars>>

\* Notes(): notes.mutex.Lock()
NotesLock ==
  /\ noters[NotesReader].pc = "start"
  /\ ~notesNil
  /\ LockFree(mutex)
  /\ mutex' = NotesReader
  /\ noters' = [noters EXCEPT ![NotesReader].pc = "locked",
                              ![NotesReader].after = NotersDone]
  /\ UNCHANGED <<notesNil, notes>>
  /\ UNCHANGED <<counterVars, manyVars, computeVars, makeVars, contextVars>>

\* Notes(): return notes.notes, and the deferred Unlock.
NotesReturn ==
  /\ noters[NotesReader].pc = "locked"
  /\ mutex' = 0
  /\ noters' = [noters EXCEPT ![NotesReader].pc = "done",
                              ![NotesReader].local = notes]
  /\ UNCHANGED <<notesNil, notes>>
  /\ UNCHANGED <<counterVars, manyVars, computeVars, makeVars, contextVars>>

NextNotes ==
  \/ \E t \in Noters : AddNoteNil(t)
  \/ \E t \in Noters : AddNoteLock(t)
  \/ \E t \in Noters : AddNoteRead(t)
  \/ \E t \in Noters : AddNoteWrite(t)
  \/ \E t \in Noters : AddNoteUnlock(t)
  \/ NotesOfNil
  \/ NotesLock
  \/ NotesReturn

SpecNotes == InitNotes /\ [][NextNotes]_vars

(***************************************************************************)
(* EvaluationContext: copies of the contexts of two queries.               *)
(* FetchLimit.count and EvaluationNotes are pointers: addresses into       *)
(* int32s and noteLogs, 0 for nil; of Timeout only the address matters.    *)
(***************************************************************************)
Timeranges == 0..MaxValue

RootContext(q, n, withNotes) ==
  [Timerange |-> 0,
   FetchLimit |-> [count |-> q, limit |-> n],
   Timeout |-> q,
   EvaluationNotes |-> IF withNotes THEN q ELSE 0]

\* e.Timerange = t; return e  (e is the receiver's copy)
WithTimerangeDroppingNotes(e, t) == [e EXCEPT !.Timerange = t, !.EvaluationNotes = 0]
WithTimerange(e, t) == [e EXCEPT !.Timerange = t]

InitContext ==
  /\ \E n \in 0..MaxLimit, withNotes \in BOOLEAN :
       /\ contexts = <<[ctx |-> RootContext(1, n, withNotes), query |-> 1],
                        [ctx |-> RootContext(2, n, withNotes), query |-> 2]>>
       /\ int32s = <<NewFetchCounter(n).count, NewFetchCounter(n).count>>
  /\ noteLogs = << << >>, << >> >>
  /\ CounterIdle /\ ManyIdle /\ ComputeIdle /\ MakeIdle /\ NotesIdle

\* context.WithTimerange(t) on the context held at c; the result is a new value.
CallWithTimerange(c, t) ==
  /\ c \in DOMAIN contexts
  /\ Len(contexts) < MaxContexts
  /\ contexts' = Append(contexts,
                        [ctx |-> WithTimerange(contexts[c].ctx, t),
                         query |-> contexts[c].query])
  /\ UNCHANGED <<int32s, noteLogs>>
  /\ UNCHANGED <<counterVars, manyVars, computeVars, makeVars, notesVars>>

\* The context passed by value to a sibling or argument task.
PassContext(c) ==
  /\ c \in DOMAIN contexts
  /\ Len(contexts) < MaxContexts
  /\ contexts' = Append(contexts, contexts[c])
  /\ UNCHANGED <<int32s, noteLogs>>
  /\ UNCHANGED <<counterVars, manyVars, computeVars, makeVars, notesVars>>

\* context.FetchLimit.Consume(n) through the context held at c.
ContextConsume(c, n) ==
  /\ c \in DOMAIN contexts
  /\ int32s[contexts[c].ctx.FetchLimit.count] >= 0
  /\ int32s' = [int32s EXCEPT ![contexts[c].ctx.FetchLimit.count] = ConsumeAdd(@, n)]
  /\ UNCHANGED <<contexts, noteLogs>>
  /\ UNCHANGED <<counterVars, manyVars, computeVars, makeVars, notesVars>>

\* context.EvaluationNotes.AddNote(note) through the context held at c.
ContextAddNote(c, note) ==
  /\ c \in DOMAIN contexts
  /\ IF contexts[c].ctx.EvaluationNotes = 0
       THEN UNCHANGED noteLogs
       ELSE /\ Len(noteLogs[contexts[c].ctx.EvaluationNotes]) < MaxNotes
            /\ noteLogs' = [noteLogs EXCEPT ![contexts[c].ctx.EvaluationNotes] =
                                              Append(@, note)]
  /\ UNCHANGED <<contexts, int32s>>
  /\ UNCHANGED <<counterVars, manyVars, computeVars, makeVars, notesVars>>

\* What a task holding the context at c observes.
CurrentVia(c) == contexts[c].ctx.FetchLimit.limit - int32s[contexts[c].ctx.FetchLimit.count]
NotesVia(c) ==
  IF contexts[c].ctx.EvaluationNotes = 0 THEN << >>
  ELSE noteLogs[contexts[c].ctx.EvaluationNotes]

NextContext ==
  \/ \E c \in 1..MaxContexts, t \in Timeranges : CallWithTimerange(c, t)
  \/ \E c \in 1..MaxContexts : PassContext(c)
  \/ \E c \in 1..MaxContexts, n \in 1..MaxAmount : ContextConsume(c, n)
  \/ \E c \in 1..MaxContexts, note \in NoteTexts : ContextAddNote(c, note)

SpecContext == InitContext /\ [][NextContext]_vars

(***************************************************************************)
(* Properties of EvaluateMany                                              *)
(***************************************************************************)
AllSucceed == \A i \in 1..length : ~exprs[i].fails
SomeFails == \E i \in 1..length : exprs[i].fails
AllReported == \A i \in 1..length : tasks[i].pc = "done"

\* The expressions evaluated one after the other under the same context.
EvaluateSequential == [i \in 1..length |-> Evaluate(exprs[i]).value]

\* C1: when every expression evaluates successfully EvaluateMany returns no
\* error and exactly as many values as there are expressions, the value at
\* index i being that of expression i whatever the order in which the
\* goroutines finish: the result of evaluating them one after the other.
C1_InputOrder ==
  (mpc = "returned" /\ AllSucceed) =>
    /\ ret.err = Nil
    /\ ~ret.nilValues
    /\ Len(ret.values) = length
    /\ ret.values = EvaluateSequential

\* Three expressions with values that are not all the same, the last one's
\* result received first.
C1_Witness ==
  /\ mpc = "returned" /\ AllSucceed
  /\ length = 3
  /\ exprs[1].value # exprs[3].value
  /\ drained # << >> /\ drained[1].index = 3
  /\ ret.values = EvaluateSequential

\* C5 as stated: with more than one expression EvaluateMany does not return
\* before every goroutine has reported its result, also when some fail.
C5_ReturnsAfterAllReported ==
  (mpc = "returned" /\ length > 1) => AllReported

\* C5 amended: with more than one expression and no failure EvaluateMany
\* returns only after every goroutine has reported; on a failure it returns as
\* soon as it receives the first failed result, when the goroutines whose
\* results it has received have reported and the others may still be running.
C5_ReturnsAfterReceived ==
  (mpc = "returned" /\ length > 1) =>
    /\ ret.err = Nil => AllReported /\ Len(drained) = length
    /\ \A k \in DOMAIN drained : tasks[drained[k].index].pc = "done"
    /\ ret.err # Nil => drained # << >> /\ drained[Len(drained)].err = ret.err

\* EvaluateMany has returned an error while a sibling is still evaluating.
C5_Witness ==
  /\ mpc = "returned" /\ length > 1
  /\ ret.err # Nil
  /\ \E i \in 1..length : tasks[i].pc = "run"

\* C6: a failing sibling neither cancels nor blocks the others: every goroutine
\* that was launched evaluates its expression and delivers its result, also
\* after an error is known and after EvaluateMany has returned.
C6_EveryTaskDelivers ==
  \A i \in 1..MaxExprs :
    (tasks[i].pc = "run") ~>
      (tasks[i].pc = "done" /\ \E k \in 1..MaxExprs :
                                 \/ (k \in DOMAIN results /\ results[k].index = i)
                                 \/ (k \in DOMAIN drained /\ drained[k].index = i))

\* After EvaluateMany returned an error every sibling has reported, one of
\* them after the return, and results nobody will receive lie in the channel.
C6_Witness ==
  /\ mpc = "returned" /\ length > 1
  /\ ret.err # Nil
  /\ AllReported
  /\ \E i \in 1..length : tasks[i].late
  /\ results # << >>

\* C7: EvaluateMany returns an error if and only if at least one expression
\* fails to evaluate; it then returns a nil slice, and the error is that of the
\* first failed result it received (of the one expression, when there is one).
C7_ErrorIffFailure ==
  mpc = "returned" =>
    /\ ret.err # Nil <=> SomeFails
    /\ ret.err # Nil =>
         /\ ret.nilValues /\ ret.values = << >>
         /\ length = 1 => ret.err = Evaluate(exprs[1]).err
         /\ length > 1 =>
              /\ drained # << >>
              /\ ret.err = drained[Len(drained)].err
              /\ \A k \in 1..(Len(drained) - 1) : drained[k].err = Nil

\* Two expressions fail, a value was received first, and the error returned
\* is not that of the failing expression that comes first in the list.
C7_Witness ==
  /\ mpc = "returned" /\ length = 3
  /\ ret.err # Nil /\ ret.nilValues
  /\ Len(drained) = 2 /\ drained[1].err = Nil
  /\ exprs[2].fails /\ exprs[3].fails
  /\ ret.err = Evaluate(exprs[3]).err

(***************************************************************************)
(* Properties of Compute                                                   *)
(***************************************************************************)
FailedParams == {i \in DOMAIN btasks : btasks[i].err # Nil}
FirstOf(S) == CHOOSE i \in S : \A j \in S : i <= j
IsValueParam(t) == t \in OrdinaryTypes \cup OptionalTypes

\* The number of value parameters among the first i parameters.
ValueParamsUpTo(i) == Cardinality({j \in 1..i : IsValueParam(funcType.in[j])})

\* The optional parameters for which no argument expression is left.
OmittedParams ==
  {i \in 1..NumIn : funcType.in[i] \in OptionalTypes /\ ValueParamsUpTo(i) > Len(arguments)}

ZeroOf(t) == [kind |-> "zero", v |-> t.base]

\* C4 as stated: when bindings fail Compute returns the failure of the failing
\* parameter that comes first in declaration order.
C4_FirstInDeclarationOrder ==
  (cpc = "returned" /\ FailedParams # {}) =>
    cret.err = btasks[FirstOf(FailedParams)].err

\* C4 amended: when bindings fail Compute returns the failure that was sent on
\* the errors channel first: that of the failing parameter whose goroutine
\* failed first, which need not be the first failing parameter in declaration
\* order.
C4_FirstInCompletionOrder ==
  (cpc = "returned" /\ FailedParams # {}) =>
    /\ sent # << >>
    /\ cret.err = btasks[sent[1]].err
    /\ cret.err # Nil /\ cret.value = NilValue

\* Two bindings failed and the error returned is that of the later parameter.
C4_Witness ==
  /\ cpc = "returned"
  /\ Cardinality(FailedParams) = 2
  /\ sent[1] # FirstOf(FailedParams)
  /\ cret.err = btasks[sent[1]].err
  /\ cret.err # btasks[FirstOf(FailedParams)].err

\* C10: when all required arguments are supplied and optional ones are
\* omitted, each omitted optional parameter is bound to, and the callable
\* receives, the zero value of its declared type, and no expression is
\* evaluated for it: only supplied argument expressions are evaluated.
C10_OmittedOptionalIsZero ==
  ( /\ cpc \in {"wait", "returned"}
    /\ Inspect(funcType.in).required <= Len(arguments)
    /\ Len(arguments) < Inspect(funcType.in).required + Inspect(funcType.in).optional )
  =>
    /\ \A i \in OmittedParams :
         /\ argumentFuncs[i].kind = "provide"
         /\ argumentFuncs[i].value = ZeroOf(funcType.in[i])
         /\ btasks[i].err = Nil
         /\ btasks[i].pc = "done" => argValues[i] = ZeroOf(funcType.in[i])
         /\ \A k \in DOMAIN invoked : invoked[k][i] = ZeroOf(funcType.in[i])
    /\ evalCount[0] = 0

\* Two required arguments supplied, the optional third omitted: the callable
\* was invoked with the zero value and both arguments were evaluated.
C10_Witness ==
  /\ cpc = "returned"
  /\ funcType.in = <<scalarType, scalarType, PtrTo(scalarType)>>
  /\ Len(arguments) = 2
  /\ Len(invoked) = 1
  /\ invoked[1][3] = ZeroOf(PtrTo(scalarType))
  /\ evalCount[1] = 1 /\ evalCount[2] = 1 /\ evalCount[0] = 0

BindingsDone == \A i \in DOMAIN btasks : btasks[i].pc = "done"

\* C16: the callable is invoked at most once, only when every binding task
\* has finished and none has failed; when a binding has failed the callable
\* is never invoked, and Compute returns, after all binding tasks have
\* finished, no value and an error.
C16_InvokedAfterJoin ==
  /\ Len(invoked) <= 1
  /\ Len(invoked) = 1 => (BindingsDone /\ FailedParams = {})
  /\ FailedParams # {} => invoked = << >>
  /\ (cpc = "returned" /\ invoked = << >>) =>
       /\ BindingsDone /\ FailedParams # {}
       /\ cret.value = NilValue /\ cret.err # Nil

\* The callable was invoked once, after three binding tasks, two of which
\* evaluated an argument, had all finished without failure.
C16_Witness ==
  /\ NumIn = 3 /\ BindingsDone /\ FailedParams = {}
  /\ Len(arguments) = 2
  /\ evalCount[1] = 1 /\ evalCount[2] = 1
  /\ Len(invoked) = 1 /\ cpc = "returned"

\* The argument expression the value parameter at i is bound to: the k-th
\* argument for the k-th value parameter, none when fewer were supplied.
ArgumentOf(i) ==
  IF ValueParamsUpTo(i) <= Len(arguments)
    THEN arguments[ValueParamsUpTo(i)]
    ELSE NoExpression

\* The value the parameter at i resolves to.
Resolved(i) ==
  IF funcType.in[i] = contextType THEN ContextValue
  ELSE IF funcType.in[i] = timerangeType THEN TimerangeValue
  ELSE IF funcType.in[i] = groupsType THEN GroupsValue
  ELSE IF funcType.in[i] \in OrdinaryTypes
    THEN EvalTo(ArgumentOf(i), funcType.in[i]).value
  ELSE IF ArgumentOf(i) = NoExpression THEN ZeroOf(funcType.in[i])
  ELSE PtrToValue(EvalTo(ArgumentOf(i), Elem(funcType.in[i])).value)

\* C17: the k-th value parameter in declaration order is bound to the k-th
\* argument expression; context, timerange and group parameters take no
\* argument and are bound to the context, its timerange and the groups,
\* wherever they stand; the callable receives at each position the value its
\* parameter resolved to.
C17_PositionalBinding ==
  cpc \in {"wait", "returned"} =>
    /\ \A i \in 1..NumIn :
         /\ argumentFuncs[i].arg = (IF IsValueParam(funcType.in[i]) THEN ArgumentOf(i)
                                                                   ELSE NoExpression)
         /\ ~IsValueParam(funcType.in[i]) =>
              argumentFuncs[i] = ProvideValue(Resolved(i))
         /\ (btasks[i].pc = "done" /\ btasks[i].err = Nil) => argValues[i] = Resolved(i)
    /\ \A k \in DOMAIN invoked : \A i \in 1..NumIn : invoked[k][i] = Resolved(i)

\* With a timerange parameter between them, the two scalar parameters got the
\* first and the second argument, and the callable the values at the
\* positions declared.
C17_Witness ==
  /\ funcType.in = <<scalarType, timerangeType, scalarType>>
  /\ Len(arguments) = 2
  /\ arguments[1].value = ScalarValue(MaxValue) /\ arguments[2].value = ScalarValue(1)
  /\ Len(invoked) = 1
  /\ invoked[1] = <<ScalarValue(MaxValue), TimerangeValue, ScalarValue(1)>>

ExpressionValue(e) == [kind |-> "expression", v |-> e.id]
BoundExpression(i) ==
  IF funcType.in[i] = expressionType
    THEN ExpressionValue(ArgumentOf(i))
    ELSE PtrToValue(ExpressionValue(ArgumentOf(i)))

\* C18: for a parameter of the Expression type, required or optional, with an
\* argument supplied, Compute binds the argument expression itself, behind a
\* pointer when optional, without failure and without ever calling Evaluate
\* on it.
C18_ExpressionNotEvaluated ==
  cpc \in {"wait", "returned"} =>
    \A i \in 1..NumIn :
      (funcType.in[i] \in {expressionType, PtrTo(expressionType)}
         /\ ArgumentOf(i) # NoExpression) =>
        /\ evalCount[ArgumentOf(i).id] = 0
        /\ btasks[i].err = Nil
        /\ btasks[i].pc = "done" => argValues[i] = BoundExpression(i)
        /\ \A k \in DOMAIN invoked : invoked[k][i] = BoundExpression(i)

\* The callable was invoked with its first argument as an expression that
\* would fail if evaluated and was not evaluated, and with the scalar the
\* second argument evaluated to.
C18_Witness ==
  /\ funcType.in = <<expressionType, scalarType>>
  /\ Len(arguments) = 2 /\ arguments[1].fails
  /\ Len(invoked) = 1
  /\ invoked[1] = <<ExpressionValue(arguments[1]), ScalarValue(1)>>
  /\ evalCount[1] = 0 /\ evalCount[2] = 1

\* The Value that holds the callable's first result.
ValueOfResult(t, first) ==
  IF t = timeseriesType THEN [kind |-> "timeseries", v |-> first] ELSE first

\* C19: when all bindings have succeeded and the callable has been invoked,
\* Compute returns: no value and the callable's error when the callable
\* returned one as its second result, else the Value holding the callable's
\* first result and no error.
C19_OutcomeFromCallable ==
  Len(invoked) = 1 =>
    /\ cpc = "returned"
    /\ IF Len(output) = 2 /\ output[2] # Nil
         THEN cret.value = NilValue /\ cret.err = output[2]
         ELSE cret.err = Nil /\ cret.value = ValueOfResult(funcType.out[1], output[1])

\* The parameters that take the k-th argument expression.
ParamsOf(k) ==
  {i \in 1..NumIn : IsValueParam(funcType.in[i]) /\ ValueParamsUpTo(i) = k}

\* The k-th argument is bound to a value parameter that is not of the
\* Expression type.
BoundToEvaluated(k) ==
  \E i \in ParamsOf(k) : Elem(funcType.in[i]) # expressionType

\* C21: no argument expression is evaluated more than once; an argument
\* that is bound to no value parameter of non-Expression kind, one beyond
\* the number of value parameters included, is never evaluated; and once
\* all binding tasks have finished every argument bound to a value
\* parameter of non-Expression kind has been evaluated exactly once, whether
\* or not a binding failed.
C21_EvaluatedOnce ==
  \A k \in DOMAIN arguments :
    /\ evalCount[k] <= 1
    /\ ~BoundToEvaluated(k) => evalCount[k] = 0
    /\ (cpc \in {"wait", "returned"} /\ BindingsDone /\ BoundToEvaluated(k)) =>
         evalCount[k] = 1

\* The first of two bound arguments failed, Compute returned its error, and
\* both arguments were evaluated once.
C21_Witness ==
  /\ funcType.in = <<scalarType, scalarType>>
  /\ Len(arguments) = 2 /\ arguments[1].fails /\ ~arguments[2].fails
  /\ cpc = "returned" /\ cret.err # Nil
  /\ evalCount[1] = 1 /\ evalCount[2] = 1

BindingRuns(i) == IF i \in DOMAIN btasks THEN btasks[i].pc = "run" ELSE FALSE
BindingDone(i) == IF i \in DOMAIN btasks THEN btasks[i].pc = "done" ELSE FALSE

\* Compute never waits forever: every binding task that has not panicked
\* leaves through waiter.Done(), no send on the errors channel waits, and
\* the call ends, by a return or by a panic.
ComputeEnds ==
  /\ <>(cpc = "returned" \/ panicked)
  /\ \A i \in 1..MaxParams :
       BindingRuns(i) ~> (BindingDone(i) \/ panicked)
  /\ [](Len(errors) <= NumIn)

\* EvaluateMany returns.
EvaluateManyEnds == <>(mpc = "returned")

\* C22: with terminating Evaluate calls and callable and fair scheduling a
\* call of Compute eventually returns, and every binding task that was
\* started finishes: none waits forever to report its value or its error.
C22_ComputeReturns ==
  /\ <>(cpc = "returned")
  /\ \A i \in 1..MaxParams :
       BindingRuns(i) ~> BindingDone(i)

\* C15: no call of Compute, with any number of argument expressions, reaches
\* a panic: every failure at query time is a returned error.
C15_NeverPanics == ~panicked

(***************************************************************************)
(* Properties of MakeFunction                                              *)
(***************************************************************************)
RequiredParams(in) == {i \in DOMAIN in : in[i] \in OrdinaryTypes}
OptionalParams(in) == {i \in DOMAIN in : in[i] \in OptionalTypes}
GroupParams(in) == {i \in DOMAIN in : in[i] = groupsType}

\* C11: for an accepted callable MinArguments is the number of required-value
\* parameters, MaxArguments that number plus the number of optional-value
\* parameters, and AllowsGroupBy holds exactly when a group parameter exists
\* at any position; context and timerange parameters count toward neither.
C11_ArgumentCounts ==
  (made.done /\ made.panic = "") =>
    /\ made.MinArguments = Cardinality(RequiredParams(callable.in))
    /\ made.MaxArguments = made.MinArguments + Cardinality(OptionalParams(callable.in))
    /\ made.AllowsGroupBy <=> GroupParams(callable.in) # {}

\* (context, required scalar, optional scalar) gives 1, 2, false.
C11_Witness ==
  /\ made.done /\ made.panic = ""
  /\ callable.in = <<contextType, scalarType, PtrTo(scalarType)>>
  /\ made.MinArguments = 1 /\ made.MaxArguments = 2 /\ ~made.AllowsGroupBy

\* The defects C12 lists.
RequiredAfterOptional(in) ==
  \E i, j \in DOMAIN in : i < j /\ in[i] \in OptionalTypes /\ in[j] \in OrdinaryTypes
UnsupportedParam(in) ==
  \E i \in DOMAIN in : in[i] \notin ProviderTypes \cup OrdinaryTypes \cup OptionalTypes
BadFirstResult(out) ==
  Len(out) >= 1 /\ out[1] \notin ValueImplementations \cup {valueType, timeseriesType}
ListedDefect(f) ==
  \/ RequiredAfterOptional(f.in)
  \/ f.variadic
  \/ Len(f.out) = 0 \/ Len(f.out) > 2
  \/ BadFirstResult(f.out)
  \/ UnsupportedParam(f.in)
BadSecondResult(out) == Len(out) = 2 /\ out[2] # errorType

\* C12 as stated: MakeFunction panics for every callable with one of the
\* listed defects and accepts every callable with none of them.
C12_PanicsIffListedDefect ==
  (made.done /\ callable.kind = "func") =>
    (made.panic # "" <=> ListedDefect(callable))

\* C12 amended: MakeFunction panics exactly for the callables with one of the
\* listed defects or with a second result whose type is not convertible to
\* error; an accepted callable has only parameter types that the switches of
\* Compute have a case for.
C12_PanicsIffDefect ==
  (made.done /\ callable.kind = "func") =>
    /\ made.panic # "" <=> (ListedDefect(callable) \/ BadSecondResult(callable.out))
    /\ made.panic = "" =>
         \A i \in DOMAIN callable.in :
           callable.in[i] \in ProviderTypes \cup OrdinaryTypes \cup OptionalTypes

\* A callable whose only defect is a required parameter after an optional one
\* was refused, at construction.
C12_Witness ==
  /\ made.done /\ made.panic # ""
  /\ callable.kind = "func" /\ ~callable.variadic
  /\ callable.out = <<valueType, errorType>>
  /\ callable.in = <<PtrTo(scalarType), scalarType>>

(***************************************************************************)
(* Properties of EvaluationNotes                                           *)
(***************************************************************************)
Occurrences(seq, n) == Cardinality({i \in DOMAIN seq : seq[i] = n})
NotersWith(n) == Cardinality({t \in Noters : noters[t].note = n})
ExactlyTheNotes(seq) ==
  /\ Len(seq) = NumNoters
  /\ \A n \in NoteTexts : Occurrences(seq, n) = NotersWith(n)

\* C13: once every task has finished its one AddNote on the same non-nil
\* EvaluationNotes, the notes are exactly the tasks' notes, each once, in some
\* order, and a Notes() call begun after that returns exactly them.
C13_NoNoteLost ==
  (~notesNil /\ NotersDone) =>
    /\ ExactlyTheNotes(notes)
    /\ (noters[NotesReader].pc = "done" /\ noters[NotesReader].after) =>
         ExactlyTheNotes(noters[NotesReader].local)

\* All tasks have appended, the second one first, and Notes() returned both
\* notes afterwards.
C13_Witness ==
  /\ ~notesNil /\ NotersDone
  /\ noters[1].note = "a" /\ noters[2].note = "b"
  /\ notes[1] = "b"
  /\ noters[NotesReader].pc = "done" /\ noters[NotesReader].after
  /\ Len(noters[NotesReader].local) = NumNoters

(***************************************************************************)
(* Properties of EvaluationContext                                         *)
(***************************************************************************)
SameQuery(c, d) == contexts[c].query = contexts[d].query

\* C14: a context made by WithTimerange or passed by value differs from the
\* contexts of the same query in Timerange only: it holds the same counter,
\* notes and deadline instances, so what has been consumed or noted through
\* one copy is what every other copy observes; and making a copy changes no
\* existing context, the Timerange of the receiver included.
C14_CopiesShare ==
  /\ [](\A c, d \in DOMAIN contexts :
          SameQuery(c, d) =>
            /\ [contexts[c].ctx EXCEPT !.Timerange = 0] =
                 [contexts[d].ctx EXCEPT !.Timerange = 0]
            /\ CurrentVia(c) = CurrentVia(d)
            /\ NotesVia(c) = NotesVia(d))
  /\ [][\A c \in DOMAIN contexts : contexts'[c] = contexts[c]]_vars

\* A WithTimerange copy of the first query has another Timerange than its
\* receiver, and the Consume and AddNote made through it show through the
\* receiver, while the other query has seen neither.
C14_Witness ==
  /\ Len(contexts) >= 3
  /\ contexts[3].query = 1
  /\ contexts[3].ctx.Timerange = 1 /\ contexts[1].ctx.Timerange = 0
  /\ contexts[1].ctx.FetchLimit.limit = 2
  /\ CurrentVia(1) = 1 /\ NotesVia(1) = <<"a">>
  /\ CurrentVia(2) = 0 /\ NotesVia(2) = << >>

(***************************************************************************)
(* Properties of FetchCounter                                              *)
(***************************************************************************)
Returned(k) == calls[k].err.kind # "pending"
NoCallInFlight == \A t \in Callers : callers[t].pc = "idle"

\* C2: a call of Consume after which the cumulative total is at most the limit
\* returns no error; the first call whose cumulative total exceeds the limit
\* returns an error that reports that call's amount, exactly the attempted
\* cumulative total (the failing amount included) and the limit.
C2_ConsumeVerdict ==
  \A k \in DOMAIN calls :
    Returned(k) =>
      /\ (calls[k].cum <= limit => calls[k].err = Nil)
      /\ ((calls[k].cum > limit /\ \A j \in 1..(k - 1) : calls[j].cum <= limit)
            => calls[k].err = [kind |-> "budget", n |-> calls[k].n,
                               total |-> calls[k].cum, limit |-> limit])

\* A successful call that consumed something, then the first call over the limit.
C2_Witness ==
  \E k \in DOMAIN calls :
    /\ k > 1
    /\ calls[k - 1].err = Nil /\ calls[k - 1].n > 0
    /\ \A j \in 1..(k - 1) : calls[j].cum <= limit
    /\ calls[k].cum > limit
    /\ calls[k].err.kind = "budget"

\* C3: concurrent calls of Consume on copies sharing one counter: when the sum
\* of all amounts is at most the limit no call fails, when it exceeds the limit
\* at least one call fails, a call fails exactly when the cumulative total at
\* its atomic step exceeds the limit, and no update is lost or duplicated.
C3_OrderIndependent ==
  NoCallInFlight =>
    /\ (total <= limit => \A k \in DOMAIN calls : calls[k].err = Nil)
    /\ (total > limit => \E k \in DOMAIN calls : calls[k].err # Nil)
    /\ \A k \in DOMAIN calls : (calls[k].err # Nil <=> calls[k].cum > limit)
    /\ count = limit - total

C20_ExhaustionSticky ==
  \A k, j \in DOMAIN calls :
    (k < j /\ calls[k].err.kind = "budget" /\ calls[j].n >= 0) =>
      /\ calls[j].err # Nil
      /\ \A o \in DOMAIN observed : observed[o].at >= j => observed[o].value > limit

\* C23: with non-negative amounts a call of Consume fails exactly when the
\* true cumulative total, the call's amount included, exceeds the limit,
\* whatever the int32 counter does.
C23_VerdictIsTrueTotal ==
  \A k \in DOMAIN calls :
    (\A j \in 1..k : calls[j].n >= 0) =>
      (calls[k].err # Nil <=> calls[k].cum > limit)

\* C9: across any calls of Consume the consumption that Current() reports never
\* decreases and the remaining budget never increases.
C9_Monotonic == [][Current' >= Current /\ count' <= count]_vars

====
